---- MODULE Spec2Model ----
(***************************************************************************)
(* A model of ridgeplot's colour-interpolation core:                       *)
(*   src/src/ridgeplot/_utils.py               get_xy_extrema,             *)
(*                                             normalise_min_max           *)
(*   src/src/ridgeplot/_color/interpolation.py InterpolationContext, the   *)
(*                                             five colormode strategies,  *)
(*                                             interpolate_color,          *)
(*                                             compute_trace_colors        *)
(* Python floats are modelled as exact rationals <<num, den>> in lowest    *)
(* terms (den > 0), so equality of two numbers is equality of the pairs.   *)
(* A raised exception is the "err" field of a result ("" when none).       *)
(***************************************************************************)
EXTENDS Integers, Sequences, FiniteSets, TLC

VARIABLES pc, ctx, args, err, gen, out, calls, res

vars == <<pc, ctx, args, err, gen, out, calls, res>>

-----------------------------------------------------------------------------
(* Bounds of the model.                                                    *)

\* the largest total number of traces of a dataset
MaxTraces == 3
\* the largest number of arrays handed to get_xy_extrema
MaxArrays == 2
\* the largest denominator of an interpolation point p
MaxDen == 4

-----------------------------------------------------------------------------
(* Exact rational arithmetic, standing for Python's float arithmetic.      *)

Abs(i) == IF i < 0 THEN -i ELSE i

RECURSIVE GCD(_, _)
GCD(a, b) == IF b = 0 THEN a ELSE GCD(b, a % b)

Norm(n, d) ==
    LET g == GCD(Abs(n), Abs(d))
        s == IF d < 0 THEN -1 ELSE 1
    IN  <<(s * n) \div g, (s * d) \div g>>

Rat(i) == <<i, 1>>
RZero == Rat(0)
ROne == Rat(1)
RAdd(a, b) == Norm(a[1] * b[2] + b[1] * a[2], a[2] * b[2])
RSub(a, b) == Norm(a[1] * b[2] - b[1] * a[2], a[2] * b[2])
RMul(a, b) == Norm(a[1] * b[1], a[2] * b[2])
RDiv(a, b) == Norm(a[1] * b[2], a[2] * b[1])
RLt(a, b) == a[1] * b[2] < b[1] * a[2]
RLe(a, b) == a[1] * b[2] <= b[1] * a[2]
RMinOf(a, b) == IF RLe(a, b) THEN a ELSE b
RMaxOf(a, b) == IF RLe(a, b) THEN b ELSE a

\* Python's min(...) / max(...) of a non-empty sequence of numbers
RECURSIVE RMinSeq(_)
RMinSeq(s) == IF Len(s) = 1 THEN s[1] ELSE RMinOf(s[1], RMinSeq(Tail(s)))
RECURSIVE RMaxSeq(_)
RMaxSeq(s) == IF Len(s) = 1 THEN s[1] ELSE RMaxOf(s[1], RMaxSeq(Tail(s)))

RECURSIVE Flatten(_)
Flatten(ss) == IF ss = <<>> THEN <<>> ELSE Head(ss) \o Flatten(Tail(ss))

SeqRange(s) == {s[i] : i \in 1..Len(s)}

-----------------------------------------------------------------------------
(* Python objects as get_xy_extrema sees them: a number or a list, told    *)
(* apart at run time (len() of a number raises TypeError).                 *)

PyNum(i) == [t |-> "num", n |-> i, items |-> <<>>]
PyList(s) == [t |-> "list", n |-> 0, items |-> s]
PyNone == [t |-> "none", n |-> 0, items |-> <<>>]

\* numpy-style dimensionality of a (rectangular) nested list
RECURSIVE NDim(_)
NDim(o) ==
    IF o.t # "list" THEN 0
    ELSE IF o.items = <<>> THEN 1
    ELSE 1 + NDim(o.items[1])

\* a < b in Python: "T", "F", or "E" (TypeError: int against list).
\* Lists compare lexicographically on the first pair of unequal items.
RECURSIVE PyLt(_, _)
PyLt(a, b) ==
    IF a.t = "num" /\ b.t = "num" THEN (IF a.n < b.n THEN "T" ELSE "F")
    ELSE IF a.t # b.t THEN "E"
    ELSE LET m == IF Len(a.items) < Len(b.items) THEN Len(a.items) ELSE Len(b.items)
             diff == {i \in 1..m : a.items[i] # b.items[i]}
         IN  IF diff = {} THEN (IF Len(a.items) < Len(b.items) THEN "T" ELSE "F")
             ELSE LET k == CHOOSE i \in diff : \A j \in diff : i <= j
                  IN  PyLt(a.items[k], b.items[k])

\* Python's min(s) for a non-empty sequence s of objects: keeps the first
\* item unless a later one is smaller; a TypeError of a comparison escapes.
RECURSIVE PyMinFrom(_, _, _)
PyMinFrom(s, i, best) ==
    IF i > Len(s) THEN [err |-> "", val |-> best]
    ELSE LET c == PyLt(s[i], best)
         IN  IF c = "E" THEN [err |-> "TypeError", val |-> PyNone]
             ELSE PyMinFrom(s, i + 1, IF c = "T" THEN s[i] ELSE best)
PyMin(s) == PyMinFrom(s, 2, s[1])

RECURSIVE PyMaxFrom(_, _, _)
PyMaxFrom(s, i, best) ==
    IF i > Len(s) THEN [err |-> "", val |-> best]
    ELSE LET c == PyLt(best, s[i])
         IN  IF c = "E" THEN [err |-> "TypeError", val |-> PyNone]
             ELSE PyMaxFrom(s, i + 1, IF c = "T" THEN s[i] ELSE best)
PyMax(s) == PyMaxFrom(s, 2, s[1])

NoExtrema == <<PyNone, PyNone, PyNone, PyNone>>

\* the body of the loop of get_xy_extrema, from array i on, with the x and y
\* collected so far
RECURSIVE ExtremaLoop(_, _, _, _)
ExtremaLoop(arrays, i, x, y) ==
    IF i > Len(arrays) THEN [err |-> "", x |-> x, y |-> y]
    ELSE LET array == arrays[i] IN
         IF array.t # "list" THEN [err |-> "TypeError", x |-> x, y |-> y]
         ELSE IF Len(array.items) # 2 THEN [err |-> "ValueError", x |-> x, y |-> y]
         ELSE IF array.items[1].t # "list" \/ array.items[2].t # "list"
              THEN [err |-> "TypeError", x |-> x, y |-> y]
         ELSE IF 0 \in {Len(array.items[1].items), Len(array.items[2].items)}
              THEN [err |-> "ValueError", x |-> x, y |-> y]
         ELSE ExtremaLoop(arrays, i + 1, x \o array.items[1].items,
                          y \o array.items[2].items)

\* get_xy_extrema(arrays), arrays a sequence of objects
get_xy_extrema(arrays) ==
    LET l == ExtremaLoop(arrays, 1, <<>>, <<>>) IN
    IF l.err # "" THEN [err |-> l.err, val |-> NoExtrema]
    ELSE IF 0 \in {Len(l.x), Len(l.y)} THEN [err |-> "ValueError", val |-> NoExtrema]
    ELSE LET xmin == PyMin(l.x)
             xmax == PyMax(l.x)
             ymin == PyMin(l.y)
             ymax == PyMax(l.y)
         IN  IF xmin.err # "" THEN [err |-> xmin.err, val |-> NoExtrema]
             ELSE IF xmax.err # "" THEN [err |-> xmax.err, val |-> NoExtrema]
             ELSE IF ymin.err # "" THEN [err |-> ymin.err, val |-> NoExtrema]
             ELSE IF ymax.err # "" THEN [err |-> ymax.err, val |-> NoExtrema]
             ELSE [err |-> "", val |-> <<xmin.val, xmax.val, ymin.val, ymax.val>>]

\* normalise_min_max(val, min_, max_)
normalise_min_max(val, min_, max_) ==
    IF RLe(max_, min_) THEN [err |-> "ValueError", val |-> RZero]
    ELSE IF ~(RLe(min_, val) /\ RLe(val, max_)) THEN [err |-> "ValueError", val |-> RZero]
    ELSE [err |-> "", val |-> RDiv(RSub(val, min_), RSub(max_, min_))]

-----------------------------------------------------------------------------
(* Densities: a sequence of rows, a row a sequence of traces, a trace a    *)
(* sequence of sequences of numbers.                                       *)

\* The traces the model draws from, each a Density as get_xy_extrema reads
\* it: <<x-coordinates, y-coordinates>>.
TracePool ==
    { <<<<0, 1, 2>>, <<1, 1, 1>>>>,
      <<<<0, 2>>, <<1, 1>>>>,
      <<<<1, 3>>, <<1, 3>>>> }

RowsOfLen(k) == [1..k -> TracePool]

\* every dataset of non-empty rows with at most n traces in total
RECURSIVE DatasetsUpTo(_)
DatasetsUpTo(n) ==
    {<<>>} \cup
    UNION { {<<r>> \o rest : r \in RowsOfLen(k), rest \in DatasetsUpTo(n - k)}
            : k \in 1..n }

DensitiesInputs == DatasetsUpTo(MaxTraces) \ {<<>>}

NTraces(densities) == Len(Flatten(densities))

\* a trace as the Python object it is
TraceObj(trace) ==
    PyList([j \in 1..Len(trace) |->
              PyList([i \in 1..Len(trace[j]) |-> PyNum(trace[j][i])])])
RowObj(row) == PyList([j \in 1..Len(row) |-> TraceObj(row[j])])

\* float(o): a number converts, a list raises TypeError
PyFloat(o) ==
    IF o.t = "num" THEN [err |-> "", val |-> Rat(o.n)]
    ELSE [err |-> "TypeError", val |-> RZero]

NoCtx == [densities |-> <<>>, n_rows |-> 0, n_traces |-> 0,
          x_min |-> RZero, x_max |-> RZero]

\* the dataclass InterpolationContext
InterpolationContext(densities, n_rows, n_traces, x_min, x_max) ==
    [densities |-> densities, n_rows |-> n_rows, n_traces |-> n_traces,
     x_min |-> x_min, x_max |-> x_max]

\* the names of the parameters of get_xy_extrema
get_xy_extrema_params == {"arrays"}

\* a call f(**{kw: value}) of get_xy_extrema: a keyword that names no
\* parameter raises TypeError before the body runs
get_xy_extrema_kw(kw, value) ==
    IF kw \notin get_xy_extrema_params THEN [err |-> "TypeError", val |-> NoExtrema]
    ELSE get_xy_extrema(value)

\* InterpolationContext.from_densities(densities): the extrema utility is
\* handed the dataset itself (it iterates over rows) under the keyword
\* "densities"; the four results go through float().
from_densities(densities) ==
    LET e == get_xy_extrema_kw("densities",
                               [i \in 1..Len(densities) |-> RowObj(densities[i])])
        lo == PyFloat(e.val[1])
        hi == PyFloat(e.val[2])
        y1 == PyFloat(e.val[3])
        y2 == PyFloat(e.val[4])
    IN  IF e.err # "" THEN [err |-> e.err, val |-> NoCtx]
        ELSE IF lo.err # "" \/ hi.err # "" \/ y1.err # "" \/ y2.err # ""
             THEN [err |-> "TypeError", val |-> NoCtx]
        ELSE [err |-> "",
              val |-> InterpolationContext(densities, Len(densities),
                                           NTraces(densities), lo.val, hi.val)]

-----------------------------------------------------------------------------
(* The colormode strategies.                                               *)

NoInterpolants == <<>>

MinOfLens(ss) == CHOOSE m \in {Len(ss[i]) : i \in 1..Len(ss)} :
                    \A i \in 1..Len(ss) : m <= Len(ss[i])

\* zip(*trace): the transposition, cut to the shortest item
Zip(trace) ==
    IF trace = <<>> THEN <<>>
    ELSE [i \in 1..MinOfLens(trace) |-> [j \in 1..Len(trace) |-> trace[j][i]]]

\* _mul(a, b): element-wise product, cut to the shorter
_mul(a, b) ==
    [i \in 1..(IF Len(a) < Len(b) THEN Len(a) ELSE Len(b)) |-> a[i] * b[i]]

RECURSIVE ISum(_)
ISum(s) == IF s = <<>> THEN 0 ELSE Head(s) + ISum(Tail(s))

\* x, y = zip(*trace); sum(_mul(x, y)) / sum(y)
\* the unpacking raises ValueError unless zip yields exactly two tuples
weighted_mean(trace) ==
    LET z == Zip(trace) IN
    IF Len(z) # 2 THEN [err |-> "ValueError", val |-> RZero]
    ELSE LET x == z[1]
             y == z[2]
         IN  IF ISum(y) = 0 THEN [err |-> "ZeroDivisionError", val |-> RZero]
             ELSE [err |-> "", val |-> Norm(ISum(_mul(x, y)), ISum(y))]

\* the error of the first failing item of a sequence of results, "" if none
RECURSIVE FirstErr(_)
FirstErr(rs) ==
    IF rs = <<>> THEN ""
    ELSE IF Head(rs).err # "" THEN Head(rs).err
    ELSE FirstErr(Tail(rs))

Vals(rows) == [i \in 1..Len(rows) |-> [j \in 1..Len(rows[i]) |-> rows[i][j].val]]

\* the number of traces in the rows before row i
RECURSIVE TracesBefore(_, _)
TracesBefore(densities, i) ==
    IF i <= 1 THEN 0 ELSE Len(densities[i - 1]) + TracesBefore(densities, i - 1)

\* _interpolate_row_index with the "* len(row)" lost: one position per row
_interpolate_row_index_one_per_row(c) ==
    IF c.densities # <<>> /\ c.n_rows - 1 = 0
    THEN [err |-> "ZeroDivisionError", val |-> NoInterpolants]
    ELSE [err |-> "",
          val |-> [i \in 1..Len(c.densities) |->
                     <<Norm((c.n_rows - 1) - (i - 1), c.n_rows - 1)>>]]

_interpolate_row_index(c) ==
    IF c.densities # <<>> /\ c.n_rows - 1 = 0
    THEN [err |-> "ZeroDivisionError", val |-> NoInterpolants]
    ELSE [err |-> "",
          val |-> [i \in 1..Len(c.densities) |->
                     [j \in 1..Len(c.densities[i]) |->
                        Norm((c.n_rows - 1) - (i - 1), c.n_rows - 1)]]]

\* _interpolate_trace_index with ith_trace reset at the start of every row
_interpolate_trace_index_reset_per_row(c) ==
    IF NTraces(c.densities) > 0 /\ c.n_traces - 1 = 0
    THEN [err |-> "ZeroDivisionError", val |-> NoInterpolants]
    ELSE [err |-> "",
          val |-> [i \in 1..Len(c.densities) |->
                     [j \in 1..Len(c.densities[i]) |->
                        Norm((c.n_traces - 1) - (j - 1), c.n_traces - 1)]]]

_interpolate_trace_index(c) ==
    IF NTraces(c.densities) > 0 /\ c.n_traces - 1 = 0
    THEN [err |-> "ZeroDivisionError", val |-> NoInterpolants]
    ELSE [err |-> "",
          val |-> [i \in 1..Len(c.densities) |->
                     [j \in 1..Len(c.densities[i]) |->
                        Norm((c.n_traces - 1)
                               - (TracesBefore(c.densities, i) + (j - 1)),
                             c.n_traces - 1)]]]

_interpolate_trace_index_row_wise(c) ==
    IF \E i \in 1..Len(c.densities) : Len(c.densities[i]) = 1
    THEN [err |-> "ZeroDivisionError", val |-> NoInterpolants]
    ELSE [err |-> "",
          val |-> [i \in 1..Len(c.densities) |->
                     [j \in 1..Len(c.densities[i]) |->
                        Norm((Len(c.densities[i]) - 1) - (j - 1),
                             Len(c.densities[i]) - 1)]]]

\* one trace of _interpolate_mean_minmax
mean_minmax_of(trace, c) ==
    LET m == weighted_mean(trace) IN
    IF m.err # "" THEN m ELSE normalise_min_max(m.val, c.x_min, c.x_max)

_interpolate_mean_minmax(c) ==
    LET ps == [i \in 1..Len(c.densities) |->
                 [j \in 1..Len(c.densities[i]) |->
                    mean_minmax_of(c.densities[i][j], c)]]
        e == FirstErr(Flatten(ps))
    IN  IF e # "" THEN [err |-> e, val |-> NoInterpolants]
        ELSE [err |-> "", val |-> Vals(ps)]

_interpolate_mean_means(c) ==
    LET ms == [i \in 1..Len(c.densities) |->
                 [j \in 1..Len(c.densities[i]) |-> weighted_mean(c.densities[i][j])]]
        e == FirstErr(Flatten(ms))
        means == Vals(ms)
    IN  IF e # "" THEN [err |-> e, val |-> NoInterpolants]
        ELSE IF means = <<>> \/ \E i \in 1..Len(means) : means[i] = <<>>
             THEN [err |-> "ValueError", val |-> NoInterpolants]
        ELSE LET min_mean == RMinSeq([i \in 1..Len(means) |-> RMinSeq(means[i])])
                 max_mean == RMaxSeq([i \in 1..Len(means) |-> RMaxSeq(means[i])])
                 ps == [i \in 1..Len(means) |->
                          [j \in 1..Len(means[i]) |->
                             normalise_min_max(means[i][j], min_mean, max_mean)]]
                 e2 == FirstErr(Flatten(ps))
             IN  IF e2 # "" THEN [err |-> e2, val |-> NoInterpolants]
                 ELSE [err |-> "", val |-> Vals(ps)]

\* SOLID_COLORMODE_MAPS with the "mean-means" entry left out
SOLID_COLORMODE_MAPS_without_mean_means ==
    {"row-index", "trace-index", "trace-index-row-wise", "mean-minmax"}

SOLID_COLORMODE_MAPS ==
    {"row-index", "trace-index", "trace-index-row-wise", "mean-minmax", "mean-means"}

\* SOLID_COLORMODE_MAPS[colormode](ctx)
interpolate_func(colormode, c) ==
    CASE colormode = "row-index" -> _interpolate_row_index(c)
      [] colormode = "trace-index" -> _interpolate_trace_index(c)
      [] colormode = "trace-index-row-wise" -> _interpolate_trace_index_row_wise(c)
      [] colormode = "mean-minmax" -> _interpolate_mean_minmax(c)
      [] colormode = "mean-means" -> _interpolate_mean_means(c)


-----------------------------------------------------------------------------
(* Colours and colorscales.  A colour is its notation (fmt) and its        *)
(* channels; a colorscale is a sequence of <<position, colour>> stops.     *)

NoAlpha == <<-1, 1>>
NoOpacity == <<-1, 1>>

Color(fmt, r, g, b, a) ==
    [fmt |-> fmt, r |-> Rat(r), g |-> Rat(g), b |-> Rat(b), a |-> a]

NoColor == [fmt |-> "", r |-> RZero, g |-> RZero, b |-> RZero, a |-> NoAlpha]

\* to_rgb(c): the colour in the canonical rgb / rgba notation
to_rgb(c) == [c EXCEPT !.fmt = IF c.a = NoAlpha THEN "rgb" ELSE "rgba"]

\* apply_alpha(c, alpha): the colour as rgba carrying alpha
apply_alpha(c, alpha) == [c EXCEPT !.fmt = "rgba", !.a = alpha]

\* the number of decimal digits compute_trace_colors rounds to
NDigits == 12

RECURSIVE DecDigits(_, _, _)
DecDigits(r, d, k) ==
    IF k = 0 THEN <<>> ELSE <<(r * 10) \div d>> \o DecDigits((r * 10) % d, d, k - 1)

RECURSIVE DecRem(_, _, _)
DecRem(r, d, k) == IF k = 0 THEN r ELSE DecRem((r * 10) % d, d, k - 1)

\* digits plus one in the last place: [carry, ds]
RECURSIVE DecInc(_)
DecInc(ds) ==
    IF ds = <<>> THEN [carry |-> 1, ds |-> <<>>]
    ELSE LET n == Len(ds) IN
         IF ds[n] < 9 THEN [carry |-> 0, ds |-> [ds EXCEPT ![n] = ds[n] + 1]]
         ELSE LET rest == DecInc(SubSeq(ds, 1, n - 1))
              IN  [carry |-> rest.carry, ds |-> Append(rest.ds, 0)]

\* round(q, ndigits), ties to even: the sign, the integer part and the
\* ndigits decimal digits of the rounded number
RoundDec(q, ndigits) ==
    LET m == Abs(q[1])
        d == q[2]
        ip == m \div d
        ds == DecDigits(m % d, d, ndigits)
        fr == DecRem(m % d, d, ndigits)
        last == IF ndigits = 0 THEN ip ELSE ds[ndigits]
        up == 2 * fr > d \/ (2 * fr = d /\ last % 2 = 1)
        inc == DecInc(ds)
    IN  [neg |-> q[1] < 0,
         int |-> IF up THEN ip + inc.carry ELSE ip,
         frac |-> IF up THEN inc.ds ELSE ds]

NoAlphaDec == [neg |-> TRUE, int |-> 1, frac |-> <<>>]

\* round_color(c, ndigits): every channel rounded to ndigits decimals
round_color(c, ndigits) ==
    [fmt |-> c.fmt,
     r |-> RoundDec(c.r, ndigits),
     g |-> RoundDec(c.g, ndigits),
     b |-> RoundDec(c.b, ndigits),
     a |-> IF c.a = NoAlpha THEN NoAlphaDec ELSE RoundDec(c.a, ndigits)]

Scale(colorscale) == [i \in 1..Len(colorscale) |-> colorscale[i][1]]
Colors(colorscale) == [i \in 1..Len(colorscale) |-> colorscale[i][2]]

\* s.index(v): the first index of v in s
Index(s, v) == CHOOSE i \in 1..Len(s) : s[i] = v /\ \A j \in 1..(i - 1) : s[j] # v

\* the ColorScale invariant: unique positions in [0, 1], ascending, from 0 to 1
IsColorScale(colorscale) ==
    /\ Len(colorscale) >= 2
    /\ colorscale[1][1] = RZero
    /\ colorscale[Len(colorscale)][1] = ROne
    /\ \A i \in 1..(Len(colorscale) - 1) : RLt(colorscale[i][1], colorscale[i + 1][1])

\* validate_and_coerce_colorscale(colorscale), for a colorscale given as
\* explicit stops: the stops, or ValueError when they break the invariant
validate_and_coerce_colorscale(colorscale) ==
    IF IsColorScale(colorscale) THEN [err |-> "", val |-> colorscale]
    ELSE [err |-> "ValueError", val |-> <<>>]

\* plotly's find_intermediate_color(lowcolor, highcolor, intermed,
\* colortype="rgb"): low + intermed * (high - low) on r, g, b; no alpha
find_intermediate_color(lowcolor, highcolor, intermed) ==
    [fmt |-> "rgb",
     r |-> RAdd(lowcolor.r, RMul(intermed, RSub(highcolor.r, lowcolor.r))),
     g |-> RAdd(lowcolor.g, RMul(intermed, RSub(highcolor.g, lowcolor.g))),
     b |-> RAdd(lowcolor.b, RMul(intermed, RSub(highcolor.b, lowcolor.b))),
     a |-> NoAlpha]

\* the indices of the stops strictly above / below p
StopsAbove(scale, p) == {i \in 1..Len(scale) : RLt(p, scale[i])}
StopsBelow(scale, p) == {i \in 1..Len(scale) : RLt(scale[i], p)}

\* min(filter(lambda s: s > p, scale)), for p with a stop above it
ceil_of(scale, p) ==
    scale[CHOOSE i \in StopsAbove(scale, p) :
            \A j \in StopsAbove(scale, p) : RLe(scale[i], scale[j])]

\* floor_of with min in place of max: the smallest stop below p
floor_of_smallest(scale, p) ==
    scale[CHOOSE i \in StopsBelow(scale, p) :
            \A j \in StopsBelow(scale, p) : RLe(scale[i], scale[j])]

\* max(filter(lambda s: s < p, scale)), for p with a stop below it
floor_of(scale, p) ==
    scale[CHOOSE i \in StopsBelow(scale, p) :
            \A j \in StopsBelow(scale, p) : RLe(scale[j], scale[i])]

interpolate_color(colorscale, p) ==
    IF ~(RLe(RZero, p) /\ RLe(p, ROne)) THEN [err |-> "ValueError", val |-> NoColor]
    ELSE LET scale == Scale(colorscale)
             colors == Colors(colorscale)
         IN
         IF p \in SeqRange(scale) THEN [err |-> "", val |-> colors[Index(scale, p)]]
         ELSE IF StopsAbove(scale, p) = {} \/ StopsBelow(scale, p) = {}
              THEN [err |-> "ValueError", val |-> NoColor]
         ELSE LET rgb == [i \in 1..Len(colors) |-> to_rgb(colors[i])]
                  ceil == ceil_of(scale, p)
                  floor == floor_of(scale, p)
                  p_normalised == normalise_min_max(p, floor, ceil)
              IN  IF p_normalised.err # "" THEN [err |-> p_normalised.err, val |-> NoColor]
                  ELSE [err |-> "",
                        val |-> find_intermediate_color(rgb[Index(scale, floor)],
                                                        rgb[Index(scale, ceil)],
                                                        p_normalised.val)]

\* _get_fill_color(p), the closure of compute_trace_colors
_get_fill_color(colorscale, opacity, p) ==
    LET c == interpolate_color(colorscale, p) IN
    IF c.err # "" THEN [err |-> c.err, val |-> round_color(NoColor, NDigits)]
    ELSE [err |-> "",
          val |-> round_color(IF opacity # NoOpacity THEN apply_alpha(c.val, opacity)
                              ELSE c.val,
                              NDigits)]

NoGen == [kind |-> "", colorscale |-> <<>>, opacity |-> NoOpacity,
          interpolants |-> NoInterpolants]

\* with_opacity with the rewrite of the stop colours left out
with_opacity_dropped(colorscale, opacity) == colorscale

\* the colorscale with every stop colour carrying the opacity, when one is given
with_opacity(colorscale, opacity) ==
    IF opacity # NoOpacity
    THEN [i \in 1..Len(colorscale) |->
            <<colorscale[i][1], apply_alpha(colorscale[i][2], opacity)>>]
    ELSE colorscale

\* dict(fillgradient=go.scatter.Fillgradient(colorscale, start, stop, type))
Fillgradient(colorscale, c) ==
    [kind |-> "fillgradient", colorscale |-> colorscale,
     start |-> c.x_min, stop |-> c.x_max, type |-> "horizontal"]

\* compute_trace_colors(colorscale, colormode, opacity, interpolation_ctx):
\* the error raised by the call, or the generator it returns (what its lazy
\* rows close over) and the strategies the call invoked
compute_trace_colors(colorscale, colormode, opacity, c) ==
    LET v == validate_and_coerce_colorscale(colorscale)
        cs == with_opacity(v.val, opacity)
    IN
    IF v.err # "" THEN [err |-> v.err, gen |-> NoGen, calls |-> <<>>]
    ELSE IF colormode = "fillgradient"
         THEN [err |-> "",
               gen |-> [kind |-> "fillgradient", colorscale |-> cs,
                        opacity |-> opacity, interpolants |-> NoInterpolants],
               calls |-> <<>>]
    ELSE IF colormode \notin SOLID_COLORMODE_MAPS
         THEN [err |-> "ValueError: colormode", gen |-> NoGen, calls |-> <<>>]
    ELSE LET interpolants == interpolate_func(colormode, c) IN
         IF interpolants.err # ""
         THEN [err |-> interpolants.err, gen |-> NoGen, calls |-> <<colormode>>]
         ELSE [err |-> "",
               gen |-> [kind |-> "fillcolor", colorscale |-> cs,
                        opacity |-> opacity, interpolants |-> interpolants.val],
               calls |-> <<colormode>>]


-----------------------------------------------------------------------------
(* The inputs the model draws from.                                        *)

PyInts(s) == PyList([i \in 1..Len(s) |-> PyNum(s[i])])
Array2D(xs, ys) == PyList(<<PyInts(xs), PyInts(ys)>>)

\* 2D arrays, 2D arrays with an empty sequence, 1D arrays, 3D arrays
ArrayPool ==
    { Array2D(<<0, 1, 2>>, <<1, 1, 1>>),
      Array2D(<<3, 4>>, <<0, 5>>),
      Array2D(<<>>, <<1>>),
      Array2D(<<1>>, <<>>),
      PyInts(<<1, 2, 3>>),
      PyInts(<<1, 2>>),
      PyList(<<Array2D(<<1, 2>>, <<3, 4>>), Array2D(<<5, 6>>, <<7, 8>>)>>),
      PyList(<<Array2D(<<1>>, <<2>>), Array2D(<<3>>, <<4>>), Array2D(<<5>>, <<6>>)>>) }

ArraysInputs == UNION {[1..k -> ArrayPool] : k \in 0..MaxArrays}

ColorscaleInputs ==
    { <<<<RZero, Color("rgb", 0, 0, 0, NoAlpha)>>,
        <<ROne, Color("rgb", 255, 255, 255, NoAlpha)>>>>,
      <<<<RZero, Color("hex", 10, 200, 30, NoAlpha)>>,
        <<Norm(1, 2), Color("hex", 200, 50, 100, NoAlpha)>>,
        <<ROne, Color("hex", 100, 100, 100, NoAlpha)>>>>,
      <<<<RZero, Color("rgba", 0, 0, 255, Norm(1, 4))>>,
        <<Norm(1, 4), Color("rgba", 255, 0, 0, Norm(1, 4))>>,
        <<Norm(3, 4), Color("rgba", 0, 255, 0, Norm(1, 4))>>,
        <<ROne, Color("rgba", 40, 40, 40, Norm(1, 4))>>>> }

ColormodeInputs ==
    {"fillgradient", "row-index", "trace-index", "trace-index-row-wise",
     "mean-minmax", "mean-means", "trace_index", "mean"}

OpacityInputs == {NoOpacity, Norm(1, 2)}

PInputs == {Norm(k, d) : k \in -1..(MaxDen + 1), d \in 1..MaxDen}

-----------------------------------------------------------------------------
(* The state machine: a caller builds a context, calls                     *)
(* compute_trace_colors and consumes the generator it returns, row by row  *)
(* and trace by trace; or calls one of the pure functions.                 *)

NoArgs == [densities |-> <<>>, colorscale |-> <<>>, colormode |-> "",
           opacity |-> NoOpacity]
NoRes == [fn |-> ""]

Init ==
    /\ pc = "idle"
    /\ ctx = NoCtx
    /\ args = NoArgs
    /\ err = ""
    /\ gen = NoGen
    /\ out = <<>>
    /\ calls = <<>>
    /\ res = NoRes

\* ctx = InterpolationContext.from_densities(densities)
FromDensities ==
    /\ pc = "idle"
    /\ \E densities \in DensitiesInputs :
         LET r == from_densities(densities) IN
         /\ args' = [args EXCEPT !.densities = densities]
         /\ res' = [fn |-> "from_densities"]
         /\ err' = r.err
         /\ ctx' = r.val
         /\ pc' = IF r.err # "" THEN "raised" ELSE "ctx"
    /\ UNCHANGED <<gen, out, calls>>

\* the traces of a dataset, in row-major order, as get_xy_extrema takes them
TraceObjs(densities) ==
    [k \in 1..NTraces(densities) |-> TraceObj(Flatten(densities)[k])]

\* the context of a dataset: its row count, its trace count and the x-extrema
\* of get_xy_extrema over its traces
ContextOf(densities) ==
    LET e == get_xy_extrema(TraceObjs(densities)) IN
    InterpolationContext(densities, Len(densities), NTraces(densities),
                         PyFloat(e.val[1]).val, PyFloat(e.val[2]).val)

\* ctx = InterpolationContext(densities, n_rows, n_traces, x_min, x_max),
\* the fields computed by the caller
Construct ==
    /\ pc = "idle"
    /\ \E densities \in DensitiesInputs :
         /\ get_xy_extrema(TraceObjs(densities)).err = ""
         /\ args' = [args EXCEPT !.densities = densities]
         /\ ctx' = ContextOf(densities)
    /\ res' = [fn |-> "InterpolationContext"]
    /\ pc' = "ctx"
    /\ UNCHANGED <<err, gen, out, calls>>

\* gen = compute_trace_colors(colorscale, colormode, opacity, ctx)
ComputeTraceColors ==
    /\ pc = "ctx"
    /\ \E colorscale \in ColorscaleInputs, colormode \in ColormodeInputs,
          opacity \in OpacityInputs :
         LET r == compute_trace_colors(colorscale, colormode, opacity, ctx) IN
         /\ args' = [args EXCEPT !.colorscale = colorscale,
                                 !.colormode = colormode, !.opacity = opacity]
         /\ err' = r.err
         /\ gen' = r.gen
         /\ calls' = r.calls
         /\ pc' = IF r.err # "" THEN "raised" ELSE "gen"
    /\ UNCHANGED <<ctx, out, res>>

\* what the outer generator iterates over: the context's densities for
\* "fillgradient", the interpolants for a solid colormode
GenRows == IF gen.kind = "fillgradient" THEN ctx.densities ELSE gen.interpolants

RowOpen == out # <<>> /\ Len(out[Len(out)]) < Len(GenRows[Len(out)])

\* next() on the outer generator yields the generator of the next row
NextRow ==
    /\ pc = "gen"
    /\ ~RowOpen
    /\ Len(out) < Len(GenRows)
    /\ out' = Append(out, <<>>)
    /\ UNCHANGED <<pc, ctx, args, err, gen, calls, res>>

\* the fill specification the row's generator yields for item j of row i
FillSpec(i, j) ==
    IF gen.kind = "fillgradient"
    THEN [err |-> "", val |-> Fillgradient(gen.colorscale, ctx)]
    ELSE LET c == _get_fill_color(gen.colorscale, gen.opacity, gen.interpolants[i][j])
         IN  [err |-> c.err, val |-> [kind |-> "fillcolor", fillcolor |-> c.val]]

\* next() on the generator of the current row yields one fill specification
NextTrace ==
    /\ pc = "gen"
    /\ RowOpen
    /\ LET i == Len(out)
           f == FillSpec(i, Len(out[i]) + 1)
       IN  IF f.err # ""
           THEN /\ err' = f.err
                /\ pc' = "raised"
                /\ out' = out
           ELSE /\ out' = [out EXCEPT ![i] = Append(out[i], f.val)]
                /\ UNCHANGED <<pc, err>>
    /\ UNCHANGED <<ctx, args, gen, calls, res>>

\* the outer generator is exhausted
Exhausted ==
    /\ pc = "gen"
    /\ ~RowOpen
    /\ Len(out) = Len(GenRows)
    /\ pc' = "done"
    /\ UNCHANGED <<ctx, args, err, gen, out, calls, res>>

\* get_xy_extrema(arrays)
GetXYExtrema ==
    /\ pc = "idle"
    /\ \E arrays \in ArraysInputs :
         LET r == get_xy_extrema(arrays) IN
         /\ res' = [fn |-> "get_xy_extrema", arrays |-> arrays, val |-> r.val]
         /\ err' = r.err
         /\ pc' = IF r.err # "" THEN "raised" ELSE "returned"
    /\ UNCHANGED <<ctx, args, gen, out, calls>>

\* interpolate_color(colorscale, p)
InterpolateColor ==
    /\ pc = "idle"
    /\ \E colorscale \in ColorscaleInputs, p \in PInputs :
         LET r == interpolate_color(colorscale, p) IN
         /\ res' = [fn |-> "interpolate_color", colorscale |-> colorscale,
                    p |-> p, val |-> r.val]
         /\ err' = r.err
         /\ pc' = IF r.err # "" THEN "raised" ELSE "returned"
    /\ UNCHANGED <<ctx, args, gen, out, calls>>

Next ==
    \/ FromDensities
    \/ Construct
    \/ ComputeTraceColors
    \/ NextRow
    \/ NextTrace
    \/ Exhausted
    \/ GetXYExtrema
    \/ InterpolateColor

Spec == Init /\ [][Next]_vars


-----------------------------------------------------------------------------
(* The claims.                                                             *)

RecognisedColormodes ==
    {"fillgradient", "row-index", "trace-index", "trace-index-row-wise",
     "mean-minmax", "mean-means"}

\* compute_trace_colors has been called (with args.colormode)
Called == args.colormode # ""

\* the call of compute_trace_colors returned a generator
Returned == Called /\ pc \in {"gen", "done"}

\* C1: once compute_trace_colors has returned a generator (a recognised
\* colormode whose strategy succeeded), consuming it never raises, yields the
\* rows in the order of the input rows and within a row one fill
\* specification per trace in the order of the traces, and when it is
\* exhausted there is exactly one row per input row and one fill
\* specification per trace of that row.
C1_ShapePreserved ==
    gen.kind # "" =>
      /\ pc \in {"gen", "done"}
      /\ Len(out) <= Len(args.densities)
      /\ \A i \in 1..Len(out) :
           /\ Len(out[i]) <= Len(args.densities[i])
           /\ i < Len(out) => Len(out[i]) = Len(args.densities[i])
      /\ pc = "done" =>
           /\ Len(out) = Len(args.densities)
           /\ \A i \in 1..Len(out) : Len(out[i]) = Len(args.densities[i])
      /\ \A i \in 1..Len(out) : \A j \in 1..Len(out[i]) :
           IF args.colormode = "fillgradient"
           THEN out[i][j].kind = "fillgradient"
           ELSE /\ out[i][j].kind = "fillcolor"
                /\ out[i][j].fillcolor =
                     _get_fill_color(gen.colorscale, args.opacity,
                                     interpolate_func(args.colormode, ctx).val[i][j]).val

\* a dataset of two rows, the first of two traces, fully consumed under a
\* solid colormode
C1_Witness ==
    /\ pc = "done"
    /\ args.colormode = "row-index"
    /\ Len(args.densities) = 2
    /\ Len(args.densities[1]) = 2
    /\ Len(out) = 2
    /\ Len(out[1]) = 2

\* C2: a call of compute_trace_colors with a colormode outside the six
\* recognised names raises the invalid-colormode error at the call: no
\* strategy has been invoked, no generator is returned and no fill
\* specification is produced; a call with one of the six names never raises
\* that error.
C2_UnknownColormodeFailsFast ==
    Called =>
      IF args.colormode \notin RecognisedColormodes
      THEN /\ pc = "raised"
           /\ err = "ValueError: colormode"
           /\ calls = <<>>
           /\ gen = NoGen
           /\ out = <<>>
      ELSE err # "ValueError: colormode"

\* an unrecognised colormode has been rejected
C2_Witness ==
    /\ args.colormode = "trace_index"
    /\ pc = "raised"
    /\ err = "ValueError: colormode"

\* the k-th (from 0) of the n traces in row-major order
PositionOfIndex(k, n) == Norm((n - 1) - k, n - 1)

\* C5: with "row-index" on a dataset of at least 2 rows and with
\* "trace-index" on a dataset of at least 2 traces the call succeeds, the
\* first trace in row-major order gets position 1 and the last gets 0: row i
\* (from 0) gets ((n_rows-1)-i)/(n_rows-1), the k-th trace (from 0) in
\* row-major order gets ((n_traces-1)-k)/(n_traces-1).
C5_IndexPositions ==
    LET d == args.densities
        flat == Flatten(gen.interpolants)
    IN
    /\ (args.colormode = "row-index" /\ Len(d) >= 2) =>
         /\ Returned
         /\ Len(flat) = NTraces(d)
         /\ flat[1] = ROne
         /\ flat[Len(flat)] = RZero
         /\ \A i \in 1..Len(d) : \A j \in 1..Len(d[i]) :
              gen.interpolants[i][j] = PositionOfIndex(i - 1, Len(d))
    /\ (args.colormode = "trace-index" /\ NTraces(d) >= 2) =>
         /\ Returned
         /\ Len(flat) = NTraces(d)
         /\ flat[1] = ROne
         /\ flat[Len(flat)] = RZero
         /\ \A k \in 1..Len(flat) : flat[k] = PositionOfIndex(k - 1, NTraces(d))

\* "trace-index" on two rows holding three traces, fully consumed
C5_Witness ==
    /\ args.colormode = "trace-index"
    /\ pc = "done"
    /\ Len(args.densities) = 2
    /\ NTraces(args.densities) = 3
    /\ Len(args.densities[1]) = 2


\* the x-coordinates of a dataset of Densities <<x-coordinates, y-coordinates>>
AllX(densities) ==
    UNION {SeqRange(Flatten(densities)[k][1]) : k \in 1..NTraces(densities)}

GlobalXMin(densities) ==
    CHOOSE m \in AllX(densities) : \A v \in AllX(densities) : m <= v
GlobalXMax(densities) ==
    CHOOSE m \in AllX(densities) : \A v \in AllX(densities) : m >= v

\* C3: with colormode "fillgradient" and an opacity given, every descriptor
\* emitted carries the stops of the input colorscale with every stop colour
\* at the given alpha, starts at the global x_min and stops at the global
\* x_max of the context, and is the same for every trace.
C3_GradientCarriesOpacity ==
    (Called /\ args.colormode = "fillgradient" /\ args.opacity # NoOpacity) =>
      /\ Returned
      /\ \A i \in 1..Len(out) : \A j \in 1..Len(out[i]) :
           /\ out[i][j].kind = "fillgradient"
           /\ Len(out[i][j].colorscale) = Len(args.colorscale)
           /\ \A k \in 1..Len(args.colorscale) :
                /\ out[i][j].colorscale[k][1] = args.colorscale[k][1]
                /\ out[i][j].colorscale[k][2].a = args.opacity
                /\ out[i][j].colorscale[k][2].r = args.colorscale[k][2].r
                /\ out[i][j].colorscale[k][2].g = args.colorscale[k][2].g
                /\ out[i][j].colorscale[k][2].b = args.colorscale[k][2].b
           /\ out[i][j].start = ctx.x_min
           /\ out[i][j].stop = ctx.x_max
           /\ out[i][j].start = Rat(GlobalXMin(args.densities))
           /\ out[i][j].stop = Rat(GlobalXMax(args.densities))
           /\ out[i][j] = out[1][1]

\* three gradient descriptors emitted over two rows, with an opacity, for a
\* colorscale whose colours came with another alpha
C3_Witness ==
    /\ pc = "done"
    /\ args.colormode = "fillgradient"
    /\ args.opacity = Norm(1, 2)
    /\ Len(out) = 2
    /\ NTraces(args.densities) = 3
    /\ args.colorscale[1][2].a = Norm(1, 4)

Channels(c) == <<c.r, c.g, c.b>>

\* C4: interpolate_color on a valid colorscale and p in [0, 1] returns; at a
\* stop position it returns the stored colour of that stop unchanged, and
\* elsewhere, with lo the largest stop below p and hi the smallest stop
\* above p, every channel v of the result satisfies
\* (v - lo.v) * (hi.pos - lo.pos) = (p - lo.pos) * (hi.v - lo.v) and lies
\* between lo.v and hi.v.
C4_InterpolateColor ==
    (res.fn = "interpolate_color" /\ RLe(RZero, res.p) /\ RLe(res.p, ROne)
       /\ IsColorScale(res.colorscale)) =>
      /\ pc = "returned"
      /\ \A k \in 1..Len(res.colorscale) :
           /\ res.colorscale[k][1] = res.p => res.val = res.colorscale[k][2]
           /\ (/\ k < Len(res.colorscale)
               /\ RLt(res.colorscale[k][1], res.p)
               /\ RLt(res.p, res.colorscale[k + 1][1])) =>
                LET lo == res.colorscale[k]
                    hi == res.colorscale[k + 1]
                IN  \A ch \in 1..3 :
                      LET v == Channels(res.val)[ch]
                          l == Channels(lo[2])[ch]
                          h == Channels(hi[2])[ch]
                      IN  /\ RMul(RSub(v, l), RSub(hi[1], lo[1]))
                               = RMul(RSub(res.p, lo[1]), RSub(h, l))
                          /\ RLe(RMinOf(l, h), v)
                          /\ RLe(v, RMaxOf(l, h))

\* a blend inside the middle bracket of a four-stop colorscale
C4_Witness ==
    /\ res.fn = "interpolate_color"
    /\ pc = "returned"
    /\ Len(res.colorscale) = 4
    /\ res.p = Norm(1, 2)
    /\ res.val.r = Norm(255, 2)
    /\ res.val.fmt = "rgb"


\* the y-weighted mean of x of a Density <<x-coordinates, y-coordinates>>:
\* sum(x_i * y_i) / sum(y_i)
DensityMean(trace) == Norm(ISum(_mul(trace[1], trace[2])), ISum(trace[2]))

MeansOf(densities) ==
    {DensityMean(Flatten(densities)[k]) : k \in 1..NTraces(densities)}

\* C6: with "mean-means" the call succeeds, the trace with the globally
\* smallest weighted mean gets position 0 and the trace with the globally
\* largest gets position 1 (stated for the datasets whose weighted means are
\* not all equal, where the smallest and the largest are different traces).
C6_MeanMeansExtremes ==
    LET d == args.densities IN
    (args.colormode = "mean-means" /\ Cardinality(MeansOf(d)) >= 2) =>
      /\ Returned
      /\ \A i \in 1..Len(d) : \A j \in 1..Len(d[i]) :
           /\ (\A m \in MeansOf(d) : RLe(DensityMean(d[i][j]), m)) =>
                gen.interpolants[i][j] = RZero
           /\ (\A m \in MeansOf(d) : RLe(m, DensityMean(d[i][j]))) =>
                gen.interpolants[i][j] = ROne

\* C7: with "mean-minmax" the call succeeds and every trace, a Density
\* <<x-coordinates, y-coordinates>>, gets the position
\* normalise_min_max(sum(x_i*y_i)/sum(y_i), x_min, x_max) for the global
\* x-extrema; the dataset [[([0,1,2],[1,1,1])]] has extrema (0, 2) and its
\* trace gets 1/2.
C7_MeanMinMaxPosition ==
    LET d == args.densities IN
    args.colormode = "mean-minmax" =>
      /\ Returned
      /\ ctx.x_min = Rat(GlobalXMin(d))
      /\ ctx.x_max = Rat(GlobalXMax(d))
      /\ \A i \in 1..Len(d) : \A j \in 1..Len(d[i]) :
           gen.interpolants[i][j] =
             normalise_min_max(DensityMean(d[i][j]), ctx.x_min, ctx.x_max).val
      /\ d = <<<< <<<<0, 1, 2>>, <<1, 1, 1>>>> >>>> =>
           gen.interpolants = <<<<Norm(1, 2)>>>>

\* C8: from_densities returns a context whose n_rows is the number of rows,
\* whose n_traces is the total number of traces and whose x_min / x_max are
\* the smallest / largest x-coordinate over every trace of every row.
C8_FromDensities ==
    res.fn = "from_densities" =>
      /\ pc # "raised"
      /\ ctx.densities = args.densities
      /\ ctx.n_rows = Len(args.densities)
      /\ ctx.n_traces = NTraces(args.densities)
      /\ ctx.x_min = Rat(GlobalXMin(args.densities))
      /\ ctx.x_max = Rat(GlobalXMax(args.densities))

\* C9: get_xy_extrema raises on an empty collection, on an array with an
\* empty x- or y-sequence and on an array that is not 2D (1D or 3D, whatever
\* its outermost length).
C9_ExtremaRejectsBadShapes ==
    (/\ res.fn = "get_xy_extrema"
     /\ \/ res.arrays = <<>>
        \/ \E i \in 1..Len(res.arrays) :
             \/ NDim(res.arrays[i]) # 2
             \/ \E k \in 1..Len(res.arrays[i].items) :
                  res.arrays[i].items[k].items = <<>>) =>
      pc = "raised"

\* the size a solid colormode asks of the dataset
SizeRequirementMet(colormode, d) ==
    CASE colormode = "row-index" -> Len(d) >= 2
      [] colormode = "trace-index" -> NTraces(d) >= 2
      [] colormode = "trace-index-row-wise" -> \A i \in 1..Len(d) : Len(d[i]) >= 2
      [] OTHER -> TRUE

\* C10: a solid colormode on a dataset that meets the mode's size
\* requirement succeeds with exactly one position per trace, every position
\* in [0, 1] (for "mean-means", stated for the datasets whose weighted means
\* are not all equal).
C10_PositionsInUnitInterval ==
    LET d == args.densities IN
    (args.colormode \in RecognisedColormodes \ {"fillgradient"}
       /\ SizeRequirementMet(args.colormode, d)
       /\ (args.colormode = "mean-means" => Cardinality(MeansOf(d)) >= 2)) =>
      /\ Returned
      /\ Len(gen.interpolants) = Len(d)
      /\ \A i \in 1..Len(d) :
           /\ Len(gen.interpolants[i]) = Len(d[i])
           /\ \A j \in 1..Len(d[i]) :
                /\ RLe(RZero, gen.interpolants[i][j])
                /\ RLe(gen.interpolants[i][j], ROne)


====
